---- MODULE Spec2Model ----
(***************************************************************************)
(* Model of the RL temperature-controller toolkit:                         *)
(*   - collect_digital_twin_data.py  (step-response data-collection CLI)   *)
(*   - control/reset_vx_to_safe_state.py (safe-state reset utility)        *)
(*   - environment_src/heater_gym_env.py, train_rl_heater.py (HeaterEnv)   *)
(*   - control/main_app.py (realtime control loop)                         *)
(*   - environment_src/animation.py (TrainingAnimator._interpolate_data)   *)
(*   - example/system_identification.py (FOPDT identification batch)       *)
(*                                                                         *)
(* Units.  Register values and percentages are held in tenths, as          *)
(* minimalmodbus transmits them with number_of_decimals = 1 (25.0 -> 250). *)
(* The wall clock counts half seconds (time.sleep(0.5) is one unit).       *)
(* Temperatures of the simulation are tenths of a degree, rewards are      *)
(* hundredths; the Euler update is rounded to that grid.                   *)
(***************************************************************************)
EXTENDS Integers, Sequences, FiniteSets, TLC

VARIABLES
    \* ---- data-collection CLI (__main__ of collect_digital_twin_data.py)
    pc,               \* position of the CLI's top-level routine
    v,                \* the CLI's session: "None", "open" or "closed"
    STEP_OUTPUT,      \* configured step size (tenths of a percent)
    writes,           \* register writes put on the wire, in order
    now,              \* wall clock (half seconds)
    start_time,       \* time.time() taken after the settling wait
    loop_start_time,  \* time.time() taken at the top of an iteration
    i,                \* loop index of the running sampling loop
    tick_temp,        \* current_temp as read by the latest iteration
    tick_output,      \* actual_output / current_output as read by it
    file,             \* the CSV file: [exists, rows]
    pending,          \* exception propagating through the CLI's finally
    faults,           \* transport / file faults the environment may still inject
    stats,            \* per phase: iterations run, samples present, log calls
    \* ---- run_safe_state_reset
    rpc,              \* position inside run_safe_state_reset
    vx_controller,    \* its session: "None", "open" or "closed"
    rpending,         \* exception propagating through its finally
    \* ---- HeaterEnv
    variant,          \* "gym" (heater_gym_env.py) or "train" (train_rl_heater.py)
    current_temp,
    current_step,
    u_buffer,
    prev_output,
    ret,              \* what the last step call returned (and used)
    acts,             \* actions the agent chose since the last reset; once
                      \* MaxFree were chosen it keeps repeating the last one
    calls,            \* step calls made since the last reset
    \* ---- driver harness for the manual-output writers
    requests,         \* manual-output requests made so far: <<component, percent>>
    log_calls,        \* outcomes of the log_dt_data calls of the logging harness
    \* ---- TrainingAnimator (environment_src/animation.py)
    data,             \* self.data: the recorded snapshots
    frames_per_log,   \* argument of the latest _interpolate_data call (0: none yet)
    frames,           \* what that call returned
    \* ---- system identification batch (example/system_identification.py)
    files,            \* condition of each file of FILE_LIST on disk
    results,          \* the list results of __main__
    summary           \* final_env_parameter.csv: None or Some(averages)

cliVars == <<pc, v, STEP_OUTPUT, now, start_time, loop_start_time, i, tick_temp,
            tick_output, pending, stats>>
rssrVars == <<rpc, vx_controller, rpending>>
envVars == <<variant, current_temp, current_step, u_buffer, prev_output, ret, acts, calls>>
animVars == <<data, frames_per_log, frames>>
sysidVars == <<files, results, summary>>
harnessVars == <<requests, log_calls, animVars, sysidVars>>
vars == <<cliVars, rssrVars, envVars, writes, file, faults, harnessVars>>

-----------------------------------------------------------------------------
(* Bounds of the model *)

MaxFaults == 1          \* faults injected into one run of the CLI
MaxResetFaults == 4     \* faults injected into one standalone reset
HEAT_DURATION_S == 4    \* half seconds (2.0 s); the source sets 50 s
COOL_DURATION_S == 3    \* half seconds (1.5 s); the source sets 500 s
MaxBusy == 3            \* longest time the reads of one iteration take
MaxRequests == 2        \* manual-output requests of the driver harness
MaxCalls == 4           \* log_dt_data calls of the logging harness
MaxFree == 4            \* steps whose action the agent chooses freely
MaxEpisode == 601       \* step calls made after one reset
ProbeSpan == 60         \* the reward is probed this far (tenths) around the target
MaxCycles == 3          \* cycles of the realtime control loop
MaxLogs == 3            \* snapshots handed to the animator
MaxFramesPerLog == 3    \* largest frames_per_log

-----------------------------------------------------------------------------
(* Helpers *)

Max(a, b) == IF a >= b THEN a ELSE b
Min(a, b) == IF a <= b THEN a ELSE b
Abs(a) == IF a >= 0 THEN a ELSE 0 - a

\* An absent value (Python None) and a present one.
None == <<>>
Some(x) == <<x>>

-----------------------------------------------------------------------------
(* Register map and constants (tenths where the register has one decimal) *)

A_M_ADDR == 31
MV_IN_ADDR == 32
R_S_ADDR == 33
SV1_ADDR == 103
SAFE_TEMP == 250
SAMPLE_TIME_S == 2
SettleSleep == 1
InitialSettle == 60
CliOutputLimit == 400
ResetOutputLimit == 1000

FIELDNAMES ==
    << "Timestamp", "Elapsed Time (s)", "Target Output (%)",
       "Actual Output (%)", "Actual Temp (C)" >>

-----------------------------------------------------------------------------
(* Driver functions: each returns the wire trace with its write appended.  *)
(* ok = FALSE is a transport error raised by write_register, which the     *)
(* function catches and logs.                                              *)

Wire(addr, value, ok, by) == [addr |-> addr, value |-> value, ok |-> ok, by |-> by]

set_run_stop(ws, is_run, ok) ==
    Append(ws, Wire(R_S_ADDR, IF is_run THEN 1 ELSE 0, ok, "cli"))

set_auto_manual(ws, is_manual, ok) ==
    Append(ws, Wire(A_M_ADDR, IF is_manual THEN 1 ELSE 0, ok, "cli"))

\* The clamp without its lower bound.
set_vx_manual_output_noLower(ws, output_percent, ok) ==
    LET safe_output == Min(CliOutputLimit, output_percent)
    IN  Append(ws, Wire(MV_IN_ADDR, safe_output, ok, "cli"))

set_vx_manual_output(ws, output_percent, ok) ==
    LET safe_output == Max(0, Min(CliOutputLimit, output_percent))
    IN  Append(ws, Wire(MV_IN_ADDR, safe_output, ok, "cli"))

set_vx_sv1(ws, target_temp, ok) ==
    Append(ws, Wire(SV1_ADDR, target_temp, ok, "cli"))

reset_set_run_stop(ws, is_run, ok) ==
    Append(ws, Wire(R_S_ADDR, IF is_run THEN 1 ELSE 0, ok, "rssr"))

reset_set_auto_manual(ws, is_manual, ok) ==
    Append(ws, Wire(A_M_ADDR, IF is_manual THEN 1 ELSE 0, ok, "rssr"))

reset_set_vx_manual_output(ws, output_percent, ok) ==
    LET safe_output == Max(0, Min(ResetOutputLimit, output_percent))
    IN  Append(ws, Wire(MV_IN_ADDR, safe_output, ok, "rssr"))

reset_set_vx_sv1(ws, target_temp, ok) ==
    Append(ws, Wire(SV1_ADDR, target_temp, ok, "rssr"))

\* A write that may fail: the fault budget pays for a failure.
Fallible(ok) == (ok \/ faults > 0)
Spend(n) == faults' = faults - n
Cost(ok) == IF ok THEN 0 ELSE 1
Count(b) == IF b THEN 1 ELSE 0

-----------------------------------------------------------------------------
(* CSV logging *)

HeaderRow(fieldnames) == [kind |-> "header", cells |-> fieldnames]
RecordRow(fieldnames, data_dict) ==
    [kind |-> "record",
     cells |-> [k \in 1..Len(fieldnames) |-> data_dict[fieldnames[k]]]]

LogOutcomes == {"ok", "open_fails", "write_fails", "row_fails"}

\* log_dt_data.  outcome names where the file I/O fails:
\*   open_fails   open() raises: nothing is created
\*   write_fails  open() created/opened the file, nothing reaches it
\*   row_fails    the header (if due) reaches the file, the record does not
log_dt_data(f, fieldnames, data_dict, outcome) ==
    LET file_exists == f.exists
        header == IF file_exists THEN <<>> ELSE <<HeaderRow(fieldnames)>>
        row == <<RecordRow(fieldnames, data_dict)>>
    IN  CASE outcome = "open_fails"  -> f
          [] outcome = "write_fails" -> [exists |-> TRUE, rows |-> f.rows]
          [] outcome = "row_fails"   -> [exists |-> TRUE, rows |-> f.rows \o header]
          [] OTHER                   -> [exists |-> TRUE, rows |-> f.rows \o header \o row]

NoFile == [exists |-> FALSE, rows |-> <<>>]

-----------------------------------------------------------------------------
(* Inputs of the CLI's environment *)

ReadTemps == {None, Some(305)}        \* read_temperature: None on a transport error
ReadOutputs == {None, Some(48)}       \* read_output_percent: likewise
BusyTimes == {0, MaxBusy}             \* time the reads of one iteration take
StepChoices == {0 - 200, 50, 1500}    \* STEP_OUTPUT as edited by the user (-20 %, 5 %, 150 %)

\* line 176: int(HEAT_DURATION_S / SAMPLE_TIME_S)
num_heat_steps == HEAT_DURATION_S \div SAMPLE_TIME_S

\* The step count rounded up instead of truncated.
num_cool_steps_up == (COOL_DURATION_S + SAMPLE_TIME_S - 1) \div SAMPLE_TIME_S

\* line 209: int(COOL_DURATION_S / SAMPLE_TIME_S)
num_cool_steps == COOL_DURATION_S \div SAMPLE_TIME_S

TryPcs == {"connect", "run", "sv_pre", "manual", "out0", "settle", "heat_step",
           "heat_loop", "auto_cool", "sv_cool", "cool_loop", "complete"}
FinallyPcs == {"finally", "f_out0", "f_auto", "f_sv", "f_stop", "f_close"}
RssrTryPcs == {"connect", "out0", "sv", "auto", "stop", "restored"}

\* Counters kept beside the run: iterations started, iterations whose
\* required readings were present, log_dt_data calls, failed reads, failed
\* log writes.
NoStats == [heat_ticks |-> 0, heat_present |-> 0, heat_logs |-> 0,
            cool_ticks |-> 0, cool_present |-> 0, cool_logs |-> 0,
            read_fails |-> 0, log_fails |-> 0]

\* The heat loop without its check for an absent reading.
heat_skip_never(temp, output) == FALSE

\* line 181: if current_temp is None: continue
heat_skip(temp, output) == temp = None

\* line 218: if current_temp is None or current_output is None: continue
cool_skip(temp, output) == temp = None \/ output = None

-----------------------------------------------------------------------------
(* collect_digital_twin_data.py, __main__ *)

\* A register write of the main routine whose transport error is not caught
\* by the driver function.
MainWrite_unswallowed(from, to, ws, ok, sleep) ==
    /\ pc = from
    /\ Fallible(ok)
    /\ Spend(Cost(ok))
    /\ writes' = ws
    /\ now' = now + sleep
    /\ pc' = IF ok THEN to ELSE IF from \in FinallyPcs THEN "exit" ELSE "except"
    /\ pending' = IF ~ok /\ from \in FinallyPcs THEN "Exception" ELSE pending
    /\ UNCHANGED <<v, STEP_OUTPUT, start_time, loop_start_time, i, tick_temp, tick_output,
                   stats, file, rssrVars, envVars, harnessVars>>

\* One register write of the main routine followed by its settling sleep;
\* the driver function catches a transport error, so the routine goes on.
MainWrite(from, to, ws, ok, sleep) ==
    /\ pc = from
    /\ Fallible(ok)
    /\ Spend(Cost(ok))
    /\ writes' = ws
    /\ now' = now + sleep
    /\ pc' = to
    /\ UNCHANGED <<v, STEP_OUTPUT, start_time, loop_start_time, i, tick_temp, tick_output,
                   pending, stats,
                   file, rssrVars, envVars, harnessVars>>

\* lines 145-147: v = connect_vx(...); if v is None: raise ConnectionError
main_connect ==
    /\ pc = "connect"
    /\ \E ok \in BOOLEAN :
          /\ v' = IF ok THEN "open" ELSE "None"
          /\ pc' = IF ok THEN "run" ELSE "except"
    /\ UNCHANGED <<STEP_OUTPUT, writes, now, start_time, loop_start_time, i, tick_temp, tick_output,
                   pending,
                   stats, file, faults, rssrVars, envVars, harnessVars>>

\* lines 152-154
main_run ==
    \E ok \in BOOLEAN :
        MainWrite("run", "sv_pre", set_run_stop(writes, TRUE, ok), ok, SettleSleep)

\* lines 156-158
main_sv_pre ==
    \E ok \in BOOLEAN :
        MainWrite("sv_pre", "manual", set_vx_sv1(writes, SAFE_TEMP, ok), ok, SettleSleep)

\* lines 160-162
main_manual ==
    \E ok \in BOOLEAN :
        MainWrite("manual", "out0", set_auto_manual(writes, TRUE, ok), ok, SettleSleep)

\* lines 164-165
main_out0 ==
    \E ok \in BOOLEAN :
        MainWrite("out0", "settle", set_vx_manual_output(writes, 0, ok), ok, 0)

\* lines 167-170: time.sleep(30); start_time = time.time()
main_settle ==
    /\ pc = "settle"
    /\ now' = now + InitialSettle
    /\ start_time' = now + InitialSettle
    /\ pc' = "heat_step"
    /\ UNCHANGED <<v, STEP_OUTPUT, writes, loop_start_time, i, tick_temp, tick_output,
                   pending, stats, file,
                   faults, rssrVars, envVars, harnessVars>>

\* lines 173-176: apply the step, enter the heat loop
main_heat_step ==
    /\ \E ok \in BOOLEAN :
          /\ pc = "heat_step"
          /\ Fallible(ok)
          /\ Spend(Cost(ok))
          /\ writes' = set_vx_manual_output(writes, STEP_OUTPUT, ok)
    /\ i' = 0
    /\ pc' = "heat_loop"
    /\ UNCHANGED <<v, STEP_OUTPUT, now, start_time, loop_start_time, tick_temp,
                   tick_output, pending, stats,
                   file, rssrVars, envVars, harnessVars>>

data_to_log(ts, elapsed_time, target, actual_output, temp) ==
    [n \in {FIELDNAMES[k] : k \in 1..Len(FIELDNAMES)} |->
        CASE n = "Timestamp"         -> Some(ts)
          [] n = "Elapsed Time (s)"  -> Some(elapsed_time)
          [] n = "Target Output (%)" -> Some(target)
          [] n = "Actual Output (%)" -> actual_output
          [] OTHER                   -> temp]

\* lines 177-195: one iteration of the heat loop
main_heat_loop ==
    /\ pc = "heat_loop"
    /\ i < num_heat_steps
    /\ \E current_temp_r \in ReadTemps, actual_output \in ReadOutputs,
          busy \in BusyTimes, outcome \in LogOutcomes :
          LET skip == heat_skip(current_temp_r, actual_output)
              read_cost == Cost(current_temp_r # None) + Cost(actual_output # None)
              log_cost == IF skip THEN 0 ELSE Cost(outcome = "ok")
              elapsed_time == now - start_time
              loop_time == busy
              counted == [stats EXCEPT
                            !.heat_ticks = @ + 1,
                            !.heat_present = @ + Count(current_temp_r # None),
                            !.read_fails = @ + read_cost,
                            !.log_fails = @ + log_cost]
          IN  /\ skip => outcome = "ok"
              /\ read_cost + log_cost <= faults
              /\ Spend(read_cost + log_cost)
              /\ loop_start_time' = now
              /\ tick_temp' = current_temp_r
              /\ tick_output' = actual_output
              /\ IF skip
                 THEN \* line 181: continue
                      /\ file' = file
                      /\ now' = now + busy
                      /\ stats' = counted
                 ELSE /\ file' = log_dt_data(file, FIELDNAMES,
                                    data_to_log(now + busy, elapsed_time, STEP_OUTPUT,
                                                actual_output, current_temp_r),
                                    outcome)
                      /\ now' = now + busy + Max(0, SAMPLE_TIME_S - loop_time)
                      /\ stats' = [counted EXCEPT !.heat_logs = @ + 1]
    /\ i' = i + 1
    /\ UNCHANGED <<pc, v, STEP_OUTPUT, writes, start_time, pending, rssrVars, envVars,
                   harnessVars>>

\* line 177: range(num_heat_steps) is exhausted
main_heat_done ==
    /\ pc = "heat_loop"
    /\ i >= num_heat_steps
    /\ pc' = "auto_cool"
    /\ UNCHANGED <<v, STEP_OUTPUT, writes, now, start_time, loop_start_time, i, tick_temp, tick_output,
                   pending,
                   stats, file, faults, rssrVars, envVars, harnessVars>>

\* The mode flag of line 201 inverted: the cool phase stays in MANUAL.
main_auto_cool_manual ==
    \E ok \in BOOLEAN :
        MainWrite("auto_cool", "sv_cool", set_auto_manual(writes, TRUE, ok), ok, SettleSleep)

\* lines 198-202
main_auto_cool ==
    \E ok \in BOOLEAN :
        MainWrite("auto_cool", "sv_cool", set_auto_manual(writes, FALSE, ok), ok, SettleSleep)

\* lines 204-209
main_sv_cool ==
    /\ \E ok \in BOOLEAN :
          /\ pc = "sv_cool"
          /\ Fallible(ok)
          /\ Spend(Cost(ok))
          /\ writes' = set_vx_sv1(writes, SAFE_TEMP, ok)
    /\ now' = now + SettleSleep
    /\ i' = 0
    /\ pc' = "cool_loop"
    /\ UNCHANGED <<v, STEP_OUTPUT, start_time, loop_start_time, tick_temp, tick_output,
                   pending, stats, file,
                   rssrVars, envVars, harnessVars>>

\* lines 211-235: one iteration of the cool loop
main_cool_loop ==
    /\ pc = "cool_loop"
    /\ i < num_cool_steps
    /\ \E current_temp_r \in ReadTemps, current_output \in ReadOutputs,
          busy \in BusyTimes, outcome \in LogOutcomes :
          LET skip == cool_skip(current_temp_r, current_output)
              read_cost == Cost(current_temp_r # None) + Cost(current_output # None)
              log_cost == IF skip THEN 0 ELSE Cost(outcome = "ok")
              elapsed_time == now - start_time
              loop_time == busy
              counted == [stats EXCEPT
                            !.cool_ticks = @ + 1,
                            !.cool_present = @ + Count(current_temp_r # None
                                                       /\ current_output # None),
                            !.read_fails = @ + read_cost,
                            !.log_fails = @ + log_cost]
          IN  /\ skip => outcome = "ok"
              /\ read_cost + log_cost <= faults
              /\ Spend(read_cost + log_cost)
              /\ loop_start_time' = now
              /\ tick_temp' = current_temp_r
              /\ tick_output' = current_output
              /\ IF skip
                 THEN \* line 218: continue
                      /\ file' = file
                      /\ now' = now + busy
                      /\ stats' = counted
                 ELSE /\ file' = log_dt_data(file, FIELDNAMES,
                                    data_to_log(now + busy, elapsed_time, 0,
                                                current_output, current_temp_r),
                                    outcome)
                      /\ now' = now + busy + Max(0, SAMPLE_TIME_S - loop_time)
                      /\ stats' = [counted EXCEPT !.cool_logs = @ + 1]
    /\ i' = i + 1
    /\ UNCHANGED <<pc, v, STEP_OUTPUT, writes, start_time, pending, rssrVars, envVars,
                   harnessVars>>

\* line 211: range(num_cool_steps) is exhausted
main_cool_done ==
    /\ pc = "cool_loop"
    /\ i >= num_cool_steps
    /\ pc' = "complete"
    /\ UNCHANGED <<v, STEP_OUTPUT, writes, now, start_time, loop_start_time, i, tick_temp, tick_output,
                   pending,
                   stats, file, faults, rssrVars, envVars, harnessVars>>

\* Moves of the control flow that touch nothing else.
Goto(from, to) ==
    /\ pc \in from
    /\ pc' = to
    /\ UNCHANGED <<v, STEP_OUTPUT, writes, now, start_time, loop_start_time, i, tick_temp, tick_output,
                   pending,
                   stats, file, faults, rssrVars, envVars, harnessVars>>

\* line 237: the try block ends without an error
main_complete == Goto({"complete"}, "finally")

\* An Exception raised by a statement of the try block after the connection
\* (a print, a sleep, the clock, ...) is caught at line 239.
main_raise == Goto(TryPcs \ {"connect", "complete"}, "except")

\* lines 239-240
main_except == Goto({"except"}, "finally")

\* lines 244-247: if v:
main_finally ==
    /\ pc = "finally"
    /\ pc' = IF v # "None" THEN "f_out0" ELSE "after_finally"
    /\ UNCHANGED <<v, STEP_OUTPUT, writes, now, start_time, loop_start_time, i, tick_temp, tick_output,
                   pending,
                   stats, file, faults, rssrVars, envVars, harnessVars>>

\* lines 249-250
main_f_out0 ==
    \E ok \in BOOLEAN :
        MainWrite("f_out0", "f_auto", set_vx_manual_output(writes, 0, ok), ok, SettleSleep)

\* lines 253-254
main_f_auto ==
    \E ok \in BOOLEAN :
        MainWrite("f_auto", "f_sv", set_auto_manual(writes, FALSE, ok), ok, SettleSleep)

\* lines 258-260
main_f_sv ==
    \E ok \in BOOLEAN :
        MainWrite("f_sv", "f_stop", set_vx_sv1(writes, SAFE_TEMP, ok), ok, SettleSleep)

\* lines 263-264
main_f_stop ==
    \E ok \in BOOLEAN :
        MainWrite("f_stop", "f_close", set_run_stop(writes, FALSE, ok), ok, 0)

\* The close wrapped in a try/except that swallows its error: the script
\* goes on with the session still open.
main_f_close_swallowed ==
    /\ pc = "f_close"
    /\ \E ok \in BOOLEAN :
          /\ Fallible(ok)
          /\ Spend(Cost(ok))
          /\ v' = IF ok THEN "closed" ELSE v
          /\ pending' = pending
          /\ pc' = "after_finally"
    /\ UNCHANGED <<STEP_OUTPUT, writes, now, start_time, loop_start_time, i, tick_temp,
                   tick_output, stats, file,
                   rssrVars, envVars, harnessVars>>

\* line 266: v.serial.close(); an error it raises leaves the finally block
main_f_close ==
    /\ pc = "f_close"
    /\ \E ok \in BOOLEAN :
          /\ Fallible(ok)
          /\ Spend(Cost(ok))
          /\ v' = IF ok THEN "closed" ELSE v
          /\ pending' = IF ok THEN pending ELSE "Exception"
          /\ pc' = IF ok THEN "after_finally" ELSE "exit"
    /\ UNCHANGED <<STEP_OUTPUT, writes, now, start_time, loop_start_time, i, tick_temp,
                   tick_output, stats, file,
                   rssrVars, envVars, harnessVars>>

\* end of the finally block: a propagating exception ends the script
main_after_finally ==
    /\ pc = "after_finally"
    /\ pc' = IF pending = "None" THEN "rssr" ELSE "exit"
    /\ UNCHANGED <<v, STEP_OUTPUT, writes, now, start_time, loop_start_time, i, tick_temp, tick_output,
                   pending,
                   stats, file, faults, rssrVars, envVars, harnessVars>>

\* lines 269-270: rssr()
main_call_rssr ==
    /\ pc = "rssr"
    /\ rpc = "idle"
    /\ pc' = "in_rssr"
    /\ rpc' = "connect"
    /\ UNCHANGED <<v, STEP_OUTPUT, writes, now, start_time, loop_start_time, i, tick_temp, tick_output,
                   pending,
                   stats, file, faults, vx_controller, rpending, envVars, harnessVars>>

\* line 270 returns (line 272), or the exception rssr let through ends the script
main_rssr_return ==
    /\ pc = "in_rssr"
    /\ rpc \in {"returned", "raised"}
    /\ pc' = IF rpc = "returned" THEN "end" ELSE "exit"
    /\ pending' = IF rpc = "returned" THEN pending ELSE rpending
    /\ UNCHANGED <<v, STEP_OUTPUT, writes, now, start_time, loop_start_time, i, tick_temp,
                   tick_output, stats,
                   file, faults, rssrVars, envVars, harnessVars>>

\* KeyboardInterrupt delivered to the main routine: not an Exception, so the
\* except clause is passed over; inside the finally block it ends the block.
main_interrupt ==
    /\ pc \in TryPcs \cup {"except"} \cup FinallyPcs \cup {"rssr"}
    /\ pending' = "KeyboardInterrupt"
    /\ pc' = IF pc \in TryPcs \cup {"except"} THEN "finally" ELSE "exit"
    /\ UNCHANGED <<v, STEP_OUTPUT, writes, now, start_time, loop_start_time, i, tick_temp,
                   tick_output, stats,
                   file, faults, rssrVars, envVars, harnessVars>>

-----------------------------------------------------------------------------
(* control/reset_vx_to_safe_state.py, run_safe_state_reset *)

\* A register write whose transport error is not caught by the driver function.
ResetStep_unswallowed(from, to, ws, ok) ==
    /\ rpc = from
    /\ Fallible(ok)
    /\ Spend(Cost(ok))
    /\ writes' = ws
    /\ now' = now + SettleSleep
    /\ rpc' = IF ok THEN to ELSE "except"
    /\ UNCHANGED <<pc, v, STEP_OUTPUT, start_time, loop_start_time, i, tick_temp,
                   tick_output, pending, stats, file, vx_controller, rpending, envVars,
                   harnessVars>>

\* One register write of the reset sequence followed by time.sleep(0.5); the
\* driver function catches a transport error, so the sequence goes on.
ResetStep(from, to, ws, ok) ==
    /\ rpc = from
    /\ Fallible(ok)
    /\ Spend(Cost(ok))
    /\ writes' = ws
    /\ now' = now + SettleSleep
    /\ rpc' = to
    /\ UNCHANGED <<pc, v, STEP_OUTPUT, start_time, loop_start_time, i, tick_temp, tick_output,
                   pending, stats,
                   file, vx_controller, rpending, envVars, harnessVars>>

\* lines 91-96: connect_vx; a failed connection raises ConnectionError
rssr_connect ==
    /\ rpc = "connect"
    /\ \E ok \in BOOLEAN :
          /\ vx_controller' = IF ok THEN "open" ELSE "None"
          /\ rpc' = IF ok THEN "out0" ELSE "except"
    /\ UNCHANGED <<cliVars, writes, file, faults, rpending, envVars, harnessVars>>

\* lines 98-100
rssr_out0 ==
    \E ok \in BOOLEAN :
        ResetStep("out0", "sv", reset_set_vx_manual_output(writes, 0, ok), ok)

\* lines 102-104
rssr_sv ==
    \E ok \in BOOLEAN :
        ResetStep("sv", "auto", reset_set_vx_sv1(writes, SAFE_TEMP, ok), ok)

\* lines 106-108
rssr_auto ==
    \E ok \in BOOLEAN :
        ResetStep("auto", "stop", reset_set_auto_manual(writes, FALSE, ok), ok)

\* lines 110-112
rssr_stop ==
    \E ok \in BOOLEAN :
        ResetStep("stop", "restored", reset_set_run_stop(writes, FALSE, ok), ok)

RssrGoto(from, to) ==
    /\ rpc \in from
    /\ rpc' = to
    /\ UNCHANGED <<cliVars, writes, file, faults, vx_controller, rpending, envVars,
                   harnessVars>>

\* line 114 and lines 116-117: both fall into the finally block
rssr_restored == RssrGoto({"restored"}, "finally")
rssr_except == RssrGoto({"except"}, "finally")

\* The close made without the "if vx_controller" test: on None the attribute
\* access raises out of the finally block.
rssr_finally_unguarded ==
    /\ rpc = "finally"
    /\ IF vx_controller = "None"
       THEN /\ rpc' = "raised"
            /\ rpending' = "Exception"
            /\ UNCHANGED <<vx_controller, faults>>
       ELSE \E ok \in BOOLEAN :
               /\ Fallible(ok)
               /\ Spend(Cost(ok))
               /\ vx_controller' = IF ok THEN "closed" ELSE vx_controller
               /\ rpending' = IF ok THEN rpending ELSE "Exception"
               /\ rpc' = IF ok /\ rpending = "None" THEN "returned" ELSE "raised"
    /\ UNCHANGED <<cliVars, writes, file, envVars, harnessVars>>

\* lines 119-123: if vx_controller: vx_controller.serial.close()
rssr_finally ==
    /\ rpc = "finally"
    /\ IF vx_controller = "None"
       THEN /\ rpc' = IF rpending = "None" THEN "returned" ELSE "raised"
            /\ UNCHANGED <<vx_controller, rpending, faults>>
       ELSE \E ok \in BOOLEAN :
               /\ Fallible(ok)
               /\ Spend(Cost(ok))
               /\ vx_controller' = IF ok THEN "closed" ELSE vx_controller
               /\ rpending' = IF ok THEN rpending ELSE "Exception"
               /\ rpc' = IF ok /\ rpending = "None" THEN "returned" ELSE "raised"
    /\ UNCHANGED <<cliVars, writes, file, envVars, harnessVars>>

\* KeyboardInterrupt delivered while run_safe_state_reset runs
rssr_interrupt ==
    /\ rpc \in RssrTryPcs \cup {"except", "finally"}
    /\ rpending' = "KeyboardInterrupt"
    /\ rpc' = IF rpc = "finally" THEN "raised" ELSE "finally"
    /\ UNCHANGED <<cliVars, writes, file, faults, vx_controller, envVars, harnessVars>>

RssrNext ==
    \/ rssr_connect \/ rssr_out0 \/ rssr_sv \/ rssr_auto \/ rssr_stop
    \/ rssr_restored \/ rssr_except \/ rssr_finally \/ rssr_interrupt

-----------------------------------------------------------------------------
(* Idle values of the parts a specification does not run *)

EnvIdle ==
    /\ variant = "none" /\ current_temp = 0 /\ current_step = 0
    /\ u_buffer = <<>> /\ prev_output = 0 /\ ret = <<>> /\ acts = <<>> /\ calls = 0

CliIdle ==
    /\ v = "None" /\ STEP_OUTPUT = 0 /\ start_time = 0 /\ loop_start_time = 0
    /\ i = 0 /\ tick_temp = None /\ tick_output = None
    /\ pending = "None" /\ stats = NoStats

RssrIdle == rpc = "idle" /\ vx_controller = "None" /\ rpending = "None"

AnimIdle == data = <<>> /\ frames_per_log = 0 /\ frames = <<>>

SysIdIdle == files = <<>> /\ results = <<>> /\ summary = None

-----------------------------------------------------------------------------
(* Specification of one run of the data-collection CLI, the reset it calls *)
(* included.                                                               *)

Init ==
    /\ pc = "connect"
    /\ v = "None"
    /\ STEP_OUTPUT \in StepChoices
    /\ writes = <<>>
    /\ now = 0
    /\ start_time = 0
    /\ loop_start_time = 0
    /\ i = 0
    /\ tick_temp = None
    /\ tick_output = None
    /\ file = NoFile
    /\ pending = "None"
    /\ faults = MaxFaults
    /\ stats = NoStats
    /\ RssrIdle
    /\ EnvIdle
    /\ requests = <<>>
    /\ log_calls = <<>> /\ AnimIdle /\ SysIdIdle

Next ==
    \/ main_connect \/ main_run \/ main_sv_pre \/ main_manual \/ main_out0
    \/ main_settle \/ main_heat_step \/ main_heat_loop \/ main_heat_done
    \/ main_auto_cool \/ main_sv_cool \/ main_cool_loop \/ main_cool_done
    \/ main_complete \/ main_raise \/ main_except \/ main_finally
    \/ main_f_out0 \/ main_f_auto \/ main_f_sv \/ main_f_stop \/ main_f_close
    \/ main_after_finally \/ main_call_rssr \/ main_rssr_return \/ main_interrupt
    \/ RssrNext

Spec == Init /\ [][Next]_vars

(* Specification of the reset utility run on its own (lines 127-128). *)

InitReset ==
    /\ pc = "reset_main"
    /\ CliIdle
    /\ writes = <<>>
    /\ now = 0
    /\ file = NoFile
    /\ faults = MaxResetFaults
    /\ rpc = "connect"
    /\ vx_controller = "None"
    /\ rpending = "None"
    /\ EnvIdle
    /\ requests = <<>>
    /\ log_calls = <<>> /\ AnimIdle /\ SysIdIdle

SpecReset == InitReset /\ [][RssrNext]_vars

-----------------------------------------------------------------------------
(* HeaterEnv: environment_src/heater_gym_env.py ("gym", enhanced reward)   *)
(* and environment_src/train_rl_heater.py ("train", basic reward).         *)
(* KP, TAU, THETA, DT are held in thousandths; actions in thousandths;     *)
(* outputs in tenths of a percent; temperatures in tenths of a degree;     *)
(* rewards in hundredths.                                                  *)

KP == 19999
TAU == 122544
THETA == 15735
DT == 1000
Ambient == 240
GymStartTemp == 250
TrainStartTemp == 240
target_temp == 500
max_steps == 600

\* Actions offered to step: below, inside and above the action space [-1, 1].
Actions == {0 - 1500, 0, 1500}

\* Rounding of a quotient to the nearest grid point (b > 0).
Round(a, b) == (2 * a + b) \div (2 * b)

\* The buffer size rounded up instead of truncated.
buffer_size_ceil == IF THETA < DT THEN 1 ELSE (THETA + DT - 1) \div DT

\* int(max(1, THETA / DT)): int() truncates
buffer_size == IF THETA < DT THEN 1 ELSE THETA \div DT

Zeros(n) == [k \in 1..n |-> 0]

\* heater_output = clip((action[0] + 1.0) / 2.0 * 100.0, 0.0, 100.0)
heater_output_of(action) == Max(0, Min(1000, (action + 1000) \div 2))

\* A buffer without maxlen: nothing falls out.
deque_append_unbounded(buf, x) == Append(buf, x)

\* deque(maxlen = buffer_size).append: the oldest entry falls out
deque_append(buf, x) == Append(Tail(buf), x)

\* dy = (KP * u_delayed - (current_temp - 24.0)) / TAU * DT
dy_of(u_delayed, temp) ==
    Round(Round(KP * u_delayed - 1000 * (temp - Ambient), 1000) * DT, TAU)

\* The step budget compared with > instead of >=.
gym_truncated_late(step) == step > max_steps

\* heater_gym_env.py line 88, train_rl_heater.py line 99
gym_truncated(step) == step >= max_steps
train_truncated(step) == step >= max_steps

\* _get_obs
get_obs(temp, prev) == <<target_temp - temp, temp, prev>>

\* The bonus test written without abs(): every overshoot earns the bonus.
gym_reward_noAbs(temp, heater_output, prev) ==
    LET error == target_temp - temp
        r0 == 0 - (error * error)
        r1 == IF temp > target_temp + 5 THEN (0 - 1) * Abs(r0) ELSE r0
        delta_output == Abs(heater_output - prev)
        r2 == r1 - delta_output
    IN  IF error < 5 THEN r2 + 1000 ELSE r2

\* heater_gym_env.py lines 70-82 (reward of the enhanced variant)
gym_reward(temp, heater_output, prev) ==
    LET error == target_temp - temp
        r0 == 0 - (error * error)
        r1 == IF temp > target_temp + 5 THEN (0 - 1) * Abs(r0) ELSE r0
        delta_output == Abs(heater_output - prev)
        r2 == r1 - delta_output
    IN  IF Abs(error) < 5 THEN r2 + 1000 ELSE r2

\* train_rl_heater.py lines 88-95 (reward of the basic variant)
train_reward(temp) ==
    LET error == target_temp - temp
        r0 == 0 - (error * error)
    IN  IF Abs(error) < 5 THEN r0 + 1000 ELSE r0

\* The action the agent commands at its next step call.
NextActions == IF Len(acts) < MaxFree THEN Actions ELSE {acts[Len(acts)]}
Chosen(a) == IF Len(acts) < MaxFree THEN Append(acts, a) ELSE acts

\* heater_gym_env.py lines 31-45
gym_reset ==
    /\ variant = "gym"
    /\ current_temp' = GymStartTemp
    /\ current_step' = 0
    /\ u_buffer' = Zeros(buffer_size)
    /\ prev_output' = 0
    /\ ret' = [obs |-> get_obs(GymStartTemp, 0), call |-> "reset"]
    /\ acts' = <<>>
    /\ calls' = 0
    /\ UNCHANGED <<variant, cliVars, rssrVars, writes, file, faults, harnessVars>>

\* train_rl_heater.py lines 44-57
train_reset ==
    /\ variant = "train"
    /\ current_temp' = TrainStartTemp
    /\ current_step' = 0
    /\ u_buffer' = Zeros(buffer_size)
    /\ prev_output' = 0
    /\ ret' = [obs |-> get_obs(TrainStartTemp, 0), call |-> "reset"]
    /\ acts' = <<>>
    /\ calls' = 0
    /\ UNCHANGED <<variant, cliVars, rssrVars, writes, file, faults, harnessVars>>

\* heater_gym_env.py lines 52-90
gym_step ==
    /\ variant = "gym"
    /\ calls < MaxEpisode
    /\ \E action \in NextActions :
          LET heater_output == heater_output_of(action)
              u_delayed == u_buffer[1]
              dy == dy_of(u_delayed, current_temp)
              new_temp == current_temp + dy
              reward == gym_reward(new_temp, heater_output, prev_output)
          IN  /\ u_buffer' = deque_append(u_buffer, heater_output)
              /\ current_temp' = new_temp
              /\ current_step' = current_step + 1
              /\ prev_output' = heater_output
              /\ ret' = [obs |-> get_obs(new_temp, heater_output),
                         reward |-> reward,
                         terminated |-> FALSE,
                         truncated |-> gym_truncated(current_step + 1),
                         u_delayed |-> u_delayed,
                         call |-> "step"]
              /\ acts' = Chosen(action)
    /\ calls' = calls + 1
    /\ UNCHANGED <<variant, cliVars, rssrVars, writes, file, faults, harnessVars>>

\* train_rl_heater.py lines 64-101
train_step ==
    /\ variant = "train"
    /\ calls < MaxEpisode
    /\ \E action \in NextActions :
          LET heater_output == heater_output_of(action)
              u_delayed == u_buffer[1]
              dy == dy_of(u_delayed, current_temp)
              new_temp == current_temp + dy
              reward == train_reward(new_temp)
          IN  /\ u_buffer' = deque_append(u_buffer, heater_output)
              /\ current_temp' = new_temp
              /\ current_step' = current_step + 1
              /\ prev_output' = heater_output
              /\ ret' = [obs |-> get_obs(new_temp, heater_output),
                         reward |-> reward,
                         terminated |-> FALSE,
                         truncated |-> train_truncated(current_step + 1),
                         u_delayed |-> u_delayed,
                         call |-> "step"]
              /\ acts' = Chosen(action)
    /\ calls' = calls + 1
    /\ UNCHANGED <<variant, cliVars, rssrVars, writes, file, faults, harnessVars>>

\* The state HeaterEnv.__init__ leaves: it ends with self.reset().
InitEnv ==
    /\ pc = "env"
    /\ CliIdle
    /\ RssrIdle
    /\ writes = <<>> /\ now = 0 /\ file = NoFile /\ faults = 0
    /\ requests = <<>> /\ log_calls = <<>> /\ AnimIdle /\ SysIdIdle
    /\ variant \in {"gym", "train"}
    /\ current_temp = IF variant = "gym" THEN GymStartTemp ELSE TrainStartTemp
    /\ current_step = 0
    /\ u_buffer = Zeros(buffer_size)
    /\ prev_output = 0
    /\ ret = [obs |-> get_obs(current_temp, 0), call |-> "init"]
    /\ acts = <<>>
    /\ calls = 0

NextEnv == gym_reset \/ train_reset \/ gym_step \/ train_step

SpecEnv == InitEnv /\ [][NextEnv]_vars

-----------------------------------------------------------------------------
(* Harness of the two manual-output writers: any sequence of requests.     *)

RequestPercents == {0 - 200, 0, 237, 400, 401, 1000, 1001, 1500}

request_cli ==
    /\ Len(requests) < MaxRequests
    /\ \E p \in RequestPercents, ok \in BOOLEAN :
          /\ writes' = set_vx_manual_output(writes, p, ok)
          /\ requests' = Append(requests, <<"cli", p>>)
    /\ UNCHANGED <<cliVars, rssrVars, envVars, file, faults, log_calls, animVars,
                   sysidVars>>

request_reset ==
    /\ Len(requests) < MaxRequests
    /\ \E p \in RequestPercents, ok \in BOOLEAN :
          /\ writes' = reset_set_vx_manual_output(writes, p, ok)
          /\ requests' = Append(requests, <<"rssr", p>>)
    /\ UNCHANGED <<cliVars, rssrVars, envVars, file, faults, log_calls, animVars,
                   sysidVars>>

InitDriver ==
    /\ pc = "driver"
    /\ CliIdle /\ RssrIdle /\ EnvIdle
    /\ writes = <<>> /\ now = 0 /\ file = NoFile /\ faults = 0
    /\ requests = <<>> /\ log_calls = <<>> /\ AnimIdle /\ SysIdIdle

NextDriver == request_cli \/ request_reset

SpecDriver == InitDriver /\ [][NextDriver]_vars

-----------------------------------------------------------------------------
(* Harness of log_dt_data: any sequence of calls on one filename, each     *)
(* with any outcome of its file I/O.  The Timestamp of a record is the     *)
(* number of the call that wrote it.                                       *)

call_log_dt_data ==
    /\ Len(log_calls) < MaxCalls
    /\ \E outcome \in LogOutcomes :
          /\ file' = log_dt_data(file, FIELDNAMES,
                        data_to_log(Len(log_calls) + 1, 0, 50, Some(48), Some(305)),
                        outcome)
          /\ log_calls' = Append(log_calls, outcome)
    /\ UNCHANGED <<cliVars, rssrVars, envVars, writes, faults, requests, animVars,
                   sysidVars>>

InitLog ==
    /\ pc = "log"
    /\ CliIdle /\ RssrIdle /\ EnvIdle
    /\ writes = <<>> /\ now = 0 /\ file = NoFile /\ faults = 0
    /\ requests = <<>> /\ log_calls = <<>> /\ AnimIdle /\ SysIdIdle

SpecLog == InitLog /\ [][call_log_dt_data]_vars

-----------------------------------------------------------------------------
(* The reward of the enhanced variant as a function of what a step has     *)
(* computed: the resulting temperature, the previous output and the new    *)
(* output.  The temperature is drawn from a band around the target, the    *)
(* outputs from the ones the actions command.                              *)

ProbeTemps == (target_temp - ProbeSpan)..(target_temp + ProbeSpan)
ProbeOutputs == {heater_output_of(a) : a \in Actions}

\* heater_gym_env.py lines 70-82 applied to one (temperature, output) pair
reward_probe ==
    /\ pc = "reward"
    /\ \E action \in Actions :
          LET heater_output == heater_output_of(action)
          IN  ret' = [call |-> "reward",
                      temp |-> current_temp,
                      heater_output |-> heater_output,
                      prev |-> prev_output,
                      reward |-> gym_reward(current_temp, heater_output,
                                            prev_output)]
    /\ UNCHANGED <<variant, current_temp, current_step, u_buffer, prev_output,
                   acts, calls, cliVars, rssrVars, writes, file, faults,
                   harnessVars>>

InitReward ==
    /\ pc = "reward"
    /\ CliIdle /\ RssrIdle
    /\ writes = <<>> /\ now = 0 /\ file = NoFile /\ faults = 0
    /\ requests = <<>> /\ log_calls = <<>> /\ AnimIdle /\ SysIdIdle
    /\ variant = "gym"
    /\ current_temp \in ProbeTemps
    /\ current_step = 1
    /\ u_buffer = Zeros(buffer_size)
    /\ prev_output \in ProbeOutputs
    /\ ret = [call |-> "init"]
    /\ acts = <<>>
    /\ calls = 1

SpecReward == InitReward /\ [][reward_probe]_vars

-----------------------------------------------------------------------------
(* Realtime control application: control/main_app.py.  The file elides the *)
(* connection code, so a run starts with the session v open; the policy    *)
(* answers with any action; set_vx_manual_output is the driver function of *)
(* the control package (reset_vx_to_safe_state.py).  Nothing in the file   *)
(* catches an exception: one raised in the loop ends the process.          *)

AppTarget == 500

\* lines 22-23: output_percent = clamp((action[0] + 1.0) / 2.0 * 100.0, 0, 100)
app_output_percent(action) == Max(0, Min(1000, (action + 1000) \div 2))

\* lines 11-13: current_temp = read_temperature(v); error = target - current;
\* with current_temp None the subtraction raises TypeError
app_read ==
    /\ pc = "app_read"
    /\ Len(writes) < MaxCycles
    /\ \E current_temp_r \in ReadTemps :
          /\ Fallible(current_temp_r # None)
          /\ Spend(Cost(current_temp_r # None))
          /\ tick_temp' = current_temp_r
          /\ IF current_temp_r = None
             THEN pc' = "exit" /\ pending' = "Exception"
             ELSE pc' = "app_act" /\ pending' = pending
    /\ UNCHANGED <<v, STEP_OUTPUT, writes, now, start_time, loop_start_time, i,
                   tick_output, stats, file, rssrVars, envVars, harnessVars>>

\* lines 16-29: observe, predict, convert, write, remember, sleep
app_act ==
    /\ pc = "app_act"
    /\ \E action \in Actions, ok \in BOOLEAN :
          LET error == AppTarget - tick_temp[1]
              obs == <<error, tick_temp[1], prev_output>>
              output_percent == app_output_percent(action)
          IN  /\ Fallible(ok)
              /\ Spend(Cost(ok))
              /\ writes' = reset_set_vx_manual_output(writes, output_percent, ok)
              /\ prev_output' = output_percent
    /\ now' = now + 2
    /\ pc' = "app_read"
    /\ UNCHANGED <<v, STEP_OUTPUT, start_time, loop_start_time, i, tick_temp,
                   tick_output, pending, stats, file, rssrVars, variant,
                   current_temp, current_step, u_buffer, ret, acts, calls,
                   harnessVars>>

\* KeyboardInterrupt, the only way the loop is ended from outside
app_interrupt ==
    /\ pc \in {"app_read", "app_act"}
    /\ pc' = "exit"
    /\ pending' = "KeyboardInterrupt"
    /\ UNCHANGED <<v, STEP_OUTPUT, writes, now, start_time, loop_start_time, i,
                   tick_temp, tick_output, stats, file, faults, rssrVars, envVars,
                   harnessVars>>

\* line 8 and the elided connection code
InitApp ==
    /\ pc = "app_read"
    /\ v = "open"
    /\ STEP_OUTPUT = 0 /\ start_time = 0 /\ loop_start_time = 0 /\ i = 0
    /\ tick_temp = None /\ tick_output = None
    /\ pending = "None" /\ stats = NoStats
    /\ RssrIdle /\ EnvIdle
    /\ writes = <<>> /\ now = 0 /\ file = NoFile /\ faults = MaxFaults
    /\ requests = <<>> /\ log_calls = <<>> /\ AnimIdle /\ SysIdIdle

NextApp == app_read \/ app_act \/ app_interrupt

SpecApp == InitApp /\ [][NextApp]_vars

-----------------------------------------------------------------------------
(* TrainingAnimator._interpolate_data: environment_src/animation.py.       *)
(* A snapshot is [step, times, temps, outputs].  alpha = f / frames_per_log *)
(* is the fraction f over F, and an interpolated value is held as the      *)
(* exact fraction <<numerator, F>>.  Double rounding is modelled where it  *)
(* can change a result: the sum of line 75 may come out just below a whole *)
(* number, and int() then truncates to the number below.  That happens     *)
(* only when the exact value is a whole number, f > 0 and alpha is not a   *)
(* dyadic fraction; the model allows both outcomes there.                  *)

StepValues == {0, 1, 7}
Curves == {[temps |-> <<240, 250>>, outputs |-> <<0, 0>>],
           [temps |-> <<240, 300>>, outputs |-> <<1000, 500>>]}
Snapshots ==
    {[step |-> s, times |-> <<0, 1>>, temps |-> c.temps, outputs |-> c.outputs] :
        s \in StepValues, c \in Curves}

\* (1 - alpha) * a + alpha * b with alpha = f / F
Lerp(a, b, f, F) == <<(F - f) * a + f * b, F>>

RECURSIVE IsPowerOfTwo(_)
IsPowerOfTwo(n) == n = 1 \/ (n % 2 = 0 /\ IsPowerOfTwo(n \div 2))

\* line 75: int((1 - alpha) * start_data['step'] + alpha * end_data['step'])
cur_steps(start_step, end_step, f, F) ==
    LET num == (F - f) * start_step + f * end_step
        exact == num \div F
    IN  IF num % F = 0 /\ num > 0 /\ f # 0 /\ ~IsPowerOfTwo(F)
        THEN {exact - 1, exact}
        ELSE {exact}

\* The step rounded to the nearest integer (ties to even) instead of truncated.
interp_frames_round(start_data, end_data, f, F) ==
    LET num == (F - f) * start_data.step + f * end_data.step
        q == num \div F
        r == num % F
        s == IF 2 * r < F THEN q
             ELSE IF 2 * r > F THEN q + 1
             ELSE IF q % 2 = 0 THEN q ELSE q + 1
    IN  {[step |-> s,
          times |-> start_data.times,
          temps |-> [k \in 1..Len(start_data.temps) |->
                        Lerp(start_data.temps[k], end_data.temps[k], f, F)],
          outputs |-> [k \in 1..Len(start_data.outputs) |->
                        Lerp(start_data.outputs[k], end_data.outputs[k], f, F)]]}

\* lines 66-82: the frames one (i, f) iteration can build
interp_frames(start_data, end_data, f, F) ==
    {[step |-> s,
      times |-> start_data.times,
      temps |-> [k \in 1..Len(start_data.temps) |->
                    Lerp(start_data.temps[k], end_data.temps[k], f, F)],
      outputs |-> [k \in 1..Len(start_data.outputs) |->
                    Lerp(start_data.outputs[k], end_data.outputs[k], f, F)]] :
        s \in cur_steps(start_data.step, end_data.step, f, F)}

\* lines 62-84: for f in range(frames_per_log), from f on
RECURSIVE inner_loop(_, _, _, _)
inner_loop(accs, k, f, F) ==
    IF f >= F THEN accs
    ELSE inner_loop({Append(a, fr) : a \in accs,
                        fr \in interp_frames(data[k], data[k + 1], f, F)},
                    k, f + 1, F)

\* lines 58-84: for i in range(n_logs - 1), from snapshot k on
RECURSIVE outer_loop(_, _, _)
outer_loop(accs, k, F) ==
    IF k > Len(data) - 1 THEN accs
    ELSE outer_loop(inner_loop(accs, k, 0, F), k + 1, F)

\* lines 51-87: the lists of frames a call can return
interpolate_data(F) ==
    {Append(a, data[Len(data)]) : a \in outer_loop({<<>>}, 1, F)}

call_interpolate_data ==
    /\ pc = "anim"
    /\ \E F \in 1..MaxFramesPerLog :
          /\ frames_per_log' = F
          /\ frames' \in interpolate_data(F)
    /\ UNCHANGED <<data, cliVars, rssrVars, envVars, writes, file, faults,
                   requests, log_calls, sysidVars>>

\* TrainingAnimator(recorded_data) with at least one snapshot
InitAnim ==
    /\ pc = "anim"
    /\ CliIdle /\ RssrIdle /\ EnvIdle
    /\ writes = <<>> /\ now = 0 /\ file = NoFile /\ faults = 0
    /\ requests = <<>> /\ log_calls = <<>>
    /\ data \in UNION {[1..n -> Snapshots] : n \in 1..MaxLogs}
    /\ frames_per_log = 0
    /\ frames = <<>>
    /\ SysIdIdle

SpecAnim == InitAnim /\ [][call_interpolate_data]_vars

-----------------------------------------------------------------------------
(* System identification batch: example/system_identification.py.          *)
(* Each file of FILE_LIST is in one condition on disk; a file that can be  *)
(* fitted carries the parameters curve_fit finds for it (thousandths).     *)
(* An average is held as the exact fraction <<sum, count>>.                *)

NumFiles == 4

Fits == {[Kp |-> 20000, tau |-> 120000, theta |-> 15000],
         [Kp |-> 18000, tau |-> 131000, theta |-> 17000]}

FileConditions ==
    {[kind |-> k] : k \in {"missing", "malformed", "no_heat", "fit_fails"}}
    \cup {[kind |-> "ok", fit |-> p] : p \in Fits}

\* analyze_step_response (lines 33-114): what the call does with one file.
\*   missing    os.path.exists is false: return None (lines 37-39)
\*   malformed  pd.read_csv or the column access raises (lines 42-58),
\*              outside every try block
\*   no_heat    no row with Target Output > 0: return None (lines 48-50)
\*   fit_fails  curve_fit raises inside the try block: return None (112-114)
\*   ok         the fitted parameters are returned (line 110)
analyze_step_response(f) ==
    CASE f.kind = "missing"   -> [raised |-> FALSE, value |-> None]
      [] f.kind = "malformed" -> [raised |-> TRUE, value |-> None]
      [] f.kind = "no_heat"   -> [raised |-> FALSE, value |-> None]
      [] f.kind = "fit_fails" -> [raised |-> FALSE, value |-> None]
      [] OTHER                -> [raised |-> FALSE, value |-> Some(f.fit)]

RECURSIVE SumKp(_)
SumKp(rs) == IF rs = <<>> THEN 0 ELSE rs[1].Kp + SumKp(Tail(rs))
RECURSIVE SumTau(_)
SumTau(rs) == IF rs = <<>> THEN 0 ELSE rs[1].tau + SumTau(Tail(rs))
RECURSIVE SumTheta(_)
SumTheta(rs) == IF rs = <<>> THEN 0 ELSE rs[1].theta + SumTheta(Tail(rs))

\* lines 130-134: np.mean of each parameter over results
final_env_parameter(rs) ==
    [Kp |-> <<SumKp(rs), Len(rs)>>,
     tau |-> <<SumTau(rs), Len(rs)>>,
     theta |-> <<SumTheta(rs), Len(rs)>>]

\* lines 123-126: one iteration of "for fname in FILE_LIST"; an exception
\* raised by analyze_step_response is caught nowhere and ends the script
sysid_analyze ==
    /\ pc = "sysid_loop"
    /\ i < NumFiles
    /\ LET res == analyze_step_response(files[i + 1])
       IN  IF res.raised
           THEN /\ pc' = "exit"
                /\ pending' = "Exception"
                /\ UNCHANGED <<i, results>>
           ELSE /\ results' = IF res.value # None
                               THEN Append(results, res.value[1])
                               ELSE results
                /\ i' = i + 1
                /\ UNCHANGED <<pc, pending>>
    /\ UNCHANGED <<v, STEP_OUTPUT, now, start_time, loop_start_time, tick_temp,
                   tick_output, stats, rssrVars, envVars, writes, file, faults,
                   requests, log_calls, animVars, files, summary>>

\* lines 129-148: the summary is written when results is not empty
sysid_summary ==
    /\ pc = "sysid_loop"
    /\ i = NumFiles
    /\ summary' = IF results # <<>>
                   THEN Some(final_env_parameter(results))
                   ELSE None
    /\ pc' = "end"
    /\ UNCHANGED <<v, STEP_OUTPUT, now, start_time, loop_start_time, i, tick_temp,
                   tick_output, pending, stats, rssrVars, envVars, writes, file,
                   faults, requests, log_calls, animVars, files, results>>

\* lines 118-121, with the files of FILE_LIST in any condition
InitSysId ==
    /\ pc = "sysid_loop"
    /\ CliIdle /\ RssrIdle /\ EnvIdle
    /\ writes = <<>> /\ now = 0 /\ file = NoFile /\ faults = 0
    /\ requests = <<>> /\ log_calls = <<>> /\ AnimIdle
    /\ files \in [1..NumFiles -> FileConditions]
    /\ results = <<>>
    /\ summary = None

NextSysId == sysid_analyze \/ sysid_summary

SpecSysId == InitSysId /\ [][NextSysId]_vars

-----------------------------------------------------------------------------
(* Claims *)

\* The register address and value of every write on the wire, in order.
Sent(ws) == [k \in 1..Len(ws) |-> <<ws[k].addr, ws[k].value>>]

IsPrefix(a, b) == Len(a) <= Len(b) /\ \A k \in 1..Len(a) : a[k] = b[k]

\* C1: every manual-output request, whatever its percent, transmits to
\* register 32 a value within the component's bounds: [0, 40] % in the CLI,
\* [0, 100] % in the reset utility; a request above the bound transmits the
\* bound, one below 0 transmits 0, one inside is transmitted unchanged.
C1_Clamped ==
    /\ Len(writes) = Len(requests)
    /\ \A k \in 1..Len(requests) :
          LET bound == IF requests[k][1] = "cli" THEN 400 ELSE 1000
              p == requests[k][2]
              sent == writes[k].value
          IN  /\ writes[k].addr = 32
              /\ 0 <= sent /\ sent <= bound
              /\ p > bound => sent = bound
              /\ p < 0 => sent = 0
              /\ (0 <= p /\ p <= bound) => sent = p

C1_Witness ==
    /\ Len(requests) = 2
    /\ requests[1] = <<"cli", 1500>> /\ writes[1].value = 400
    /\ requests[2] = <<"rssr", 0 - 200>> /\ writes[2].value = 0

\* C2: once run_safe_state_reset holds a connection it attempts manual
\* output 0.0, SV-1 = 25.0, AUTO, STOP in this order and nothing else,
\* whichever of the writes fail, and when it returns all four were attempted
\* and the session is closed.
ResetSequence == << <<32, 0>>, <<103, 250>>, <<31, 0>>, <<33, 0>> >>

C2_ResetSequence ==
    /\ IsPrefix(Sent(writes), ResetSequence)
    /\ (vx_controller # "None" /\ rpc = "returned")
          => (Sent(writes) = ResetSequence /\ vx_controller = "closed")

C2_Witness ==
    /\ rpc = "returned"
    /\ vx_controller = "closed"
    /\ Len(writes) = 4
    /\ \A k \in 1..4 : ~writes[k].ok

IsCli(w) == w.by = "cli"
CliSent == Sent(SelectSeq(writes, IsCli))

EndsWith(a, tail) ==
    /\ Len(a) >= Len(tail)
    /\ \A k \in 1..Len(tail) : a[Len(a) - Len(tail) + k] = tail[k]

\* C3: a run of the CLI that connected runs the safe-shutdown sequence after
\* an error at any point of the experiment and after an error-free run: its
\* last writes are manual output 0, AUTO, SV-1 = 25.0, STOP, and the session
\* is closed (or close() itself raised); a failed write inside the sequence
\* does not stop the later steps.
ShutdownSequence == << <<32, 0>>, <<31, 0>>, <<103, 250>>, <<33, 0>> >>

C3_SafeShutdown ==
    /\ (v # "None" /\ pc \in {"after_finally", "rssr", "in_rssr", "end"})
          => (EndsWith(CliSent, ShutdownSequence) /\ v = "closed")
    /\ (v # "None" /\ pc = "exit" /\ pending = "Exception")
          => EndsWith(CliSent, ShutdownSequence)

\* An error in the middle of the heat phase, a failed write in the shutdown.
C3_Witness ==
    /\ pc = "end"
    /\ v = "closed"
    /\ stats.heat_ticks >= 1 /\ stats.heat_ticks < num_heat_steps
    /\ stats.cool_ticks = 0
    /\ \E k \in 1..Len(writes) : writes[k].by = "cli" /\ ~writes[k].ok
    /\ EndsWith(CliSent, ShutdownSequence)

HeatTick == pc = "heat_loop" /\ stats'.heat_ticks = stats.heat_ticks + 1
CoolTick == pc = "cool_loop" /\ stats'.cool_ticks = stats.cool_ticks + 1

\* C4: in both sampling loops an iteration whose temperature reading is
\* absent writes no record and raises nothing, and the loop goes on; a phase
\* runs exactly num_steps iterations, and it logs one record for each
\* iteration whose required readings were present, never more than num_steps.
C4_Counts ==
    /\ stats.heat_logs = stats.heat_present
    /\ stats.cool_logs = stats.cool_present
    /\ stats.heat_ticks <= HEAT_DURATION_S \div SAMPLE_TIME_S
    /\ stats.cool_ticks <= COOL_DURATION_S \div SAMPLE_TIME_S
    /\ stats.heat_logs <= stats.heat_ticks
    /\ stats.cool_logs <= stats.cool_ticks
    /\ pc \in {"auto_cool", "sv_cool", "cool_loop", "complete"}
          => stats.heat_ticks = HEAT_DURATION_S \div SAMPLE_TIME_S
    /\ pc = "complete" => stats.cool_ticks = COOL_DURATION_S \div SAMPLE_TIME_S

C4_SkipStep ==
    ((HeatTick \/ CoolTick) /\ tick_temp' = None)
        => (file' = file /\ pc' = pc /\ i' = i + 1 /\ pending' = pending)

C4_SkipAbsent == [](C4_Counts) /\ [][C4_SkipStep]_vars

\* The run completed although one iteration was skipped.
C4_Witness ==
    /\ pc = "complete"
    /\ stats.heat_present + stats.cool_present
          = stats.heat_ticks + stats.cool_ticks - 1
    /\ stats.heat_logs + stats.cool_logs = stats.heat_ticks + stats.cool_ticks - 1

\* C5: every iteration of a sampling loop holds the cadence, a skipped one
\* included: the next iteration starts no earlier than one sample period
\* after this one started.
C5_CadenceStep ==
    (\/ (pc = "heat_loop" /\ pc' = "heat_loop" /\ i >= 1 /\ i' = i + 1)
     \/ (pc = "cool_loop" /\ pc' = "cool_loop" /\ i >= 1 /\ i' = i + 1))
        => loop_start_time' >= loop_start_time + SAMPLE_TIME_S

C5_Cadence == [][C5_CadenceStep]_vars

\* C6: in both environments the k-th step call after a reset returns
\* terminated = false, and truncated = true exactly when k >= 600.
C6_Truncation ==
    ret.call = "step"
        => /\ ret.terminated = FALSE
           /\ ret.truncated = (calls >= 600)
           /\ current_step = calls

C6_Witness == ret.call = "step" /\ calls = 600 /\ ret.truncated /\ ~ret.terminated

\* The output commanded by the k-th step call since the last reset.
Commanded(k) == heater_output_of(acts[Min(k, Len(acts))])

\* The temperature after n steps during which only zeros left the buffer.
RECURSIVE ZeroInputTemp(_, _)
ZeroInputTemp(start, n) ==
    IF n = 0 THEN start
    ELSE LET t == ZeroInputTemp(start, n - 1) IN t + dy_of(0, t)

StartTemp == IF variant = "gym" THEN GymStartTemp ELSE TrainStartTemp

\* C7 as stated: after a reset the previous output and the step counter are
\* 0 and the buffer holds zeros only; the buffer always has length
\* ceil(THETA/DT) = 16.
C7_Original ==
    /\ Len(u_buffer) = 16
    /\ ret.call \in {"init", "reset"}
          => (prev_output = 0 /\ current_step = 0 /\ \A k \in 1..16 : u_buffer[k] = 0)

\* C7 amended: after a reset the previous output and the step counter are 0
\* and the buffer holds zeros only; the buffer always has length
\* int(THETA/DT) = 15 (truncated, at least 1).
C7_BufferLength ==
    /\ Len(u_buffer) = 15
    /\ ret.call \in {"init", "reset"}
          => (prev_output = 0 /\ current_step = 0 /\ \A k \in 1..15 : u_buffer[k] = 0)

\* The state an explicit reset() call leaves.
C7_Witness ==
    /\ ret.call = "reset"
    /\ Len(u_buffer) = 15
    /\ prev_output = 0 /\ current_step = 0 /\ u_buffer[15] = 0

\* C8 as stated: the delayed output of step t is the output commanded at
\* step t - 16, and 0 for t <= 16, so the first 16 temperatures after a reset
\* do not depend on the actions.
C8_Original ==
    ret.call = "step"
        => /\ ret.u_delayed = IF calls <= 16 THEN 0 ELSE Commanded(calls - 16)
           /\ calls <= 16 => current_temp = ZeroInputTemp(StartTemp, calls)

\* C8 amended: the dead time is 15 steps.  The delayed output of step t is
\* the output commanded at step t - 15, and 0 for t <= 15, so the first 15
\* temperatures after a reset do not depend on the actions, and the output
\* commanded at step k first enters the temperature at step k + 15.
C8_DeadTime ==
    ret.call = "step"
        => /\ ret.u_delayed = IF calls <= 15 THEN 0 ELSE Commanded(calls - 15)
           /\ calls <= 15 => current_temp = ZeroInputTemp(StartTemp, calls)
           /\ calls = 16 => current_temp = ZeroInputTemp(StartTemp, 15)
                               + dy_of(Commanded(1), ZeroInputTemp(StartTemp, 15))

\* The output commanded at step 1 moves the temperature of step 16.
C8_Witness ==
    /\ ret.call = "step"
    /\ calls = 16
    /\ ret.u_delayed = 1000
    /\ Commanded(1) = 1000
    /\ current_temp # ZeroInputTemp(StartTemp, 16)

HeaderCount(rows) == Cardinality({k \in 1..Len(rows) : rows[k].kind = "header"})

\* C9: after any sequence of log_dt_data calls on a file that was absent at
\* first, with any of the calls failing on file I/O, a file that holds rows
\* holds exactly one header row, as its first row.
C9_HeaderOnce ==
    Len(file.rows) > 0
        => (HeaderCount(file.rows) = 1 /\ file.rows[1].kind = "header")

\* C10: a run of the CLI that starts without an output file and in which no
\* register read and no file write fails leaves a CSV of one header row, then
\* floor(HEAT_DURATION_S / SAMPLE_TIME_S) heat records whose Target Output is
\* the step size, then floor(COOL_DURATION_S / SAMPLE_TIME_S) cool records
\* whose Target Output is 0.0, every row having the five columns Timestamp,
\* Elapsed Time (s), Target Output (%), Actual Output (%), Actual Temp (C).
C10_Sampled ==
    /\ stats.heat_ticks = num_heat_steps
    /\ stats.cool_ticks = num_cool_steps
    /\ stats.read_fails = 0
    /\ stats.log_fails = 0

C11_OvershootNoBonus ==
    ret.call = "reward" =>
        /\ ret.temp > target_temp + 5 => ret.reward <= 0
        /\ ret.reward > 0 => Abs(target_temp - ret.temp) < 5

\* An overshoot of 0.6 with the output unchanged: the reward is -0.36.
C11_Witness ==
    /\ ret.call = "reward"
    /\ ret.temp = target_temp + 6
    /\ ret.heater_output = ret.prev
    /\ ret.reward = 0 - 36

\* C12: when the top-level routine of a component has exited, on whatever
\* path (normal, error, interrupt), every serial session it opened is closed:
\* the session of the CLI and the session of the reset it calls.
C12_SessionsClosed ==
    pc \in {"end", "exit"} => v # "open" /\ vx_controller # "open"

\* C13: once the connection attempt of the CLI has failed, no register
\* write is issued in the rest of the invocation, the trailing call of the
\* safe-state reset included.
C13_NoWriteAfterFailedConnect ==
    (v = "None" /\ pc # "connect") => writes = <<>>

\* C14: when the initial connection of run_safe_state_reset fails, it issues
\* no register write, attempts no close (so nothing is raised out of the
\* finally block) and, unless interrupted, returns to its caller normally.
C14_FailedConnectReturns ==
    (pc = "reset_main" /\ vx_controller = "None" /\ rpc # "connect") =>
        /\ writes = <<>>
        /\ rpending # "Exception"
        /\ rpending = "None" => rpc \in {"except", "finally", "returned"}

\* The reset has returned after a failed connection.
C14_Witness ==
    /\ pc = "reset_main"
    /\ vx_controller = "None"
    /\ rpc = "returned"
    /\ rpending = "None"
    /\ writes = <<>>

\* C15: a tick whose temperature read or whose output readback failed writes
\* no record, in either phase, so every record of the CSV holds both an
\* Actual Output and an Actual Temp.
C15_RecordsComplete ==
    \A k \in 1..Len(file.rows) :
        file.rows[k].kind = "record" =>
            /\ file.rows[k].cells[4] # None
            /\ file.rows[k].cells[5] # None

\* C16: in a run of the CLI, the reset it calls included, every register
\* write that switches the controller to AUTO comes after a write of
\* SV-1 = 25.0 made earlier in the same run, on every path.
C16_SetpointBeforeAuto ==
    \A k \in 1..Len(writes) :
        (writes[k].addr = A_M_ADDR /\ writes[k].value = 0) =>
            \E j \in 1..(k - 1) :
                writes[j].addr = SV1_ADDR /\ writes[j].value = SAFE_TEMP

IsModeWrite(w) == w.addr = A_M_ADDR
ModeWrites == SelectSeq(writes, IsModeWrite)
NoAutoWrite == \A k \in 1..Len(ModeWrites) : ModeWrites[k].value = 1
LastModeIsAuto ==
    Len(ModeWrites) > 0 /\ ModeWrites[Len(ModeWrites)].value = 0

\* C17 as stated: from the write that enters MANUAL until the shutdown
\* sequence begins the CLI writes no switch to AUTO, in the heat phase and in
\* the cool phase.
C17_Original ==
    pc \in {"out0", "settle", "heat_step", "heat_loop", "auto_cool", "sv_cool",
            "cool_loop", "complete"} => NoAutoWrite

\* C17: the heat phase is open-loop: from the write that enters MANUAL until
\* the heat loop has ended the CLI writes no switch to AUTO.  Before the cool
\* loop it writes a switch to AUTO, so at every cool-phase sample the last
\* mode written is AUTO.
C17_HeatOpenLoop ==
    /\ pc \in {"out0", "settle", "heat_step", "heat_loop", "auto_cool"}
          => (NoAutoWrite /\ Len(ModeWrites) = 1)
    /\ pc \in {"sv_cool", "cool_loop", "complete"} => LastModeIsAuto

\* Heat samples and a cool sample have been logged; the mode writes so far
\* are MANUAL then AUTO.
C17_Witness ==
    /\ pc = "cool_loop"
    /\ stats.heat_logs >= 1
    /\ stats.cool_logs >= 1
    /\ Len(ModeWrites) = 2
    /\ ModeWrites[1].value = 1
    /\ ModeWrites[2].value = 0

\* C18: of two steps of the enhanced variant with the same |error| > 0.5 and
\* the same |output - previous output|, one ending above the target and one
\* below it, the one above the target gets the strictly lower reward.
C18_OvershootPenalised ==
    (ret.call = "reward" /\ ret.temp > target_temp + 5) =>
        ret.reward < gym_reward(2 * target_temp - ret.temp, ret.heater_output,
                                ret.prev)

\* C19: when the realtime control application has exited, whatever fault
\* ended its loop, its last register write set the manual output to 0 and
\* its session is closed; and a temperature read that returned nothing does
\* not end the loop.
C19_LoopFaultShutsDown ==
    /\ pc = "exit" =>
          /\ v = "closed"
          /\ Len(writes) > 0
          /\ Sent(writes)[Len(writes)] = <<MV_IN_ADDR, 0>>
    /\ (pc = "exit" /\ pending = "Exception") => tick_temp # None

\* Frame i * F + f of the claim (snapshots and frames counted from 0) is
\* frames[(k - 1) * F + f + 1] for snapshot k = i + 1.
FrameAt(k, f) == frames[(k - 1) * frames_per_log + f + 1]
ExactStepNum(k, f) ==
    (frames_per_log - f) * data[k].step + f * data[k + 1].step
Segments == {<<k, f>> : k \in 1..(Len(data) - 1), f \in 0..(frames_per_log - 1)}

\* The frame count, the interpolated curves and the last frame.
C20_Curves ==
    /\ Len(frames) = (Len(data) - 1) * frames_per_log + 1
    /\ \A seg \in Segments :
          LET k == seg[1]
              f == seg[2]
              F == frames_per_log
              fr == FrameAt(k, f)
          IN  /\ Len(fr.temps) = Len(data[k].temps)
              /\ \A e \in 1..Len(fr.temps) :
                    fr.temps[e] =
                        <<(F - f) * data[k].temps[e] + f * data[k + 1].temps[e], F>>
              /\ Len(fr.outputs) = Len(data[k].outputs)
              /\ \A e \in 1..Len(fr.outputs) :
                    fr.outputs[e] =
                        <<(F - f) * data[k].outputs[e] + f * data[k + 1].outputs[e], F>>
    /\ frames[Len(frames)] = data[Len(data)]

\* n / d rounded to the nearest integer, ties to even, for n >= 0.
RoundNearest(n, d) ==
    LET q == n \div d
        r == n % d
    IN  IF 2 * r < d THEN q
        ELSE IF 2 * r > d THEN q + 1
        ELSE IF q % 2 = 0 THEN q ELSE q + 1

\* C20 as stated: (n - 1) * F + 1 frames, frame i * F + f with
\* step = round((1 - f/F) * step_i + (f/F) * step_{i+1}) and linearly
\* interpolated temps and outputs, the last frame the final snapshot.
C20_Original ==
    frames_per_log > 0 =>
        /\ C20_Curves
        /\ \A seg \in Segments :
              FrameAt(seg[1], seg[2]).step =
                  RoundNearest(ExactStepNum(seg[1], seg[2]), frames_per_log)

\* C20: for n >= 1 snapshots with non-negative integer steps and
\* frames_per_log = F >= 1 the call returns (n - 1) * F + 1 frames; frame
\* i * F + f has temps and outputs interpolated linearly with alpha = f / F
\* and a step truncated, not rounded: the floor of
\* (1 - f/F) * step_i + (f/F) * step_{i+1}, or, when that value is a whole
\* number and f > 0, possibly the number below it; the last frame is the
\* final snapshot.
C20_Interpolation ==
    frames_per_log > 0 =>
        /\ C20_Curves
        /\ \A seg \in Segments :
              LET s == FrameAt(seg[1], seg[2]).step
                  num == ExactStepNum(seg[1], seg[2])
                  F == frames_per_log
              IN  \/ s * F <= num /\ num < (s + 1) * F
                  \/ seg[2] > 0 /\ num = (s + 1) * F

\* Snapshots at steps 0 and 1, three frames per log: the frame at alpha = 2/3
\* has step 0 (2/3 truncated), and the fourth frame is the second snapshot.
C20_Witness ==
    /\ frames_per_log = 3
    /\ Len(data) = 2
    /\ data[1].step = 0
    /\ data[2].step = 1
    /\ data[1].temps # data[2].temps
    /\ Len(frames) = 4
    /\ frames[3].step = 0
    /\ frames[4] = data[2]

\* C22: during a run of the CLI the session of the CLI and the session of
\* the reset it calls are never open together: the reset is started only
\* with the CLI's session closed (or never opened), and a run whose close
\* failed ends without starting the reset.
C22_OneSession ==
    /\ ~(v = "open" /\ vx_controller = "open")
    /\ rpc # "idle" => v # "open"
    /\ (pc = "exit" /\ v = "open") => rpc = "idle"

\* The reset holds its own session after the CLI closed the one it had.
C22_Witness ==
    /\ pc = "in_rssr"
    /\ v = "closed"
    /\ vx_controller = "open"
    /\ \E k \in 1..Len(writes) : writes[k].by = "rssr"

\* C23: whatever STEP_OUTPUT is configured, the Target Output of every
\* heat-phase record equals the value the write that starts the heat phase
\* put into register 32, that is the clamped step size.
C23_TargetIsTransmitted ==
    pc = "heat_loop" =>
        \A k \in 1..Len(file.rows) :
            file.rows[k].kind = "record" =>
                /\ writes[Len(writes)].addr = MV_IN_ADDR
                /\ file.rows[k].cells[3] = Some(writes[Len(writes)].value)

\* The fits of the files that can be analysed, in list order.
RECURSIVE SucceededFrom(_)
SucceededFrom(k) ==
    IF k > NumFiles THEN <<>>
    ELSE IF files[k].kind = "ok"
         THEN <<files[k].fit>> \o SucceededFrom(k + 1)
         ELSE SucceededFrom(k + 1)
Succeeded == SucceededFrom(1)

\* C21: whichever files of the list fail (missing, no heating rows,
\* unreadable or malformed, fit failure), the batch ends normally having
\* analysed every file; results holds exactly the fits of the files that
\* succeeded, the summary is their arithmetic mean, and no summary is
\* written when none succeeded.
C21_BatchSurvivesFailures ==
    pc \in {"end", "exit"} =>
        /\ pc = "end"
        /\ pending = "None"
        /\ i = NumFiles
        /\ results = Succeeded
        /\ summary = IF Succeeded = <<>>
                      THEN None
                      ELSE Some(final_env_parameter(Succeeded))

====
